---- MODULE Spec2Model ----
(***************************************************************************)
(* Model of skaner_rynku.znajdz_spolki_wzrostowe: the four-stage screening *)
(* pipeline (momentum, capitalization, relative strength, no drawdown),    *)
(* its external calls, its console output and the file wynik.txt.          *)
(*                                                                         *)
(* Numbers.  A closing price is a natural number (a price in cents); a gap *)
(* (pandas NaN) is the value NaN.  Percentage returns are IEEE doubles in  *)
(* the program; here a return is an exact fraction n/d (d > 0) or one of   *)
(* the special values nan / inf, and the comparisons follow the IEEE rules *)
(* for nan and inf.  Binary rounding error of the double arithmetic is not *)
(* modelled: the comparisons are those of the exact quotients.             *)
(* A market capitalization is counted in thousands of USD, so the floor    *)
(* 100_000_000 is 100000 and the "B" threshold 1_000_000_000 is 1000000.   *)
(***************************************************************************)
EXTENDS Integers, Sequences, FiniteSets, TLC

\* ------------------------------------------------------------------------
\* Program constants
\* ------------------------------------------------------------------------
dni_kwartal == 63
dni_polrocze == 126
NaN == -1

\* ------------------------------------------------------------------------
\* Bounds of the model
\* ------------------------------------------------------------------------
\* longest ticker list handed to the function
MaxTickers == 3
\* the limit_spolek argument
LimitSpolek == 2
\* rows (trading days) of the frame the bulk fetch returns
NRows == 129

\* ------------------------------------------------------------------------
\* Float values: fractions, nan, inf, and Python's None
\* ------------------------------------------------------------------------
Num(n, d) == [k |-> "num", n |-> n, d |-> d]
FNaN == [k |-> "nan", n |-> 0, d |-> 1]
FInf == [k |-> "inf", n |-> 0, d |-> 1]
None == [k |-> "none", n |-> 0, d |-> 1]

\* (teraz / wtedy - 1) * 100 on numpy doubles: no exception, x/0 is inf or nan
Wzrost(teraz, wtedy) ==
    IF teraz = NaN \/ wtedy = NaN THEN FNaN
    ELSE IF wtedy = 0 THEN (IF teraz = 0 THEN FNaN ELSE FInf)
    ELSE Num(100 * (teraz - wtedy), wtedy)

\* x < y and x <= y on doubles (any comparison with nan is False)
FLt(x, y) ==
    IF x.k = "nan" \/ y.k = "nan" THEN FALSE
    ELSE IF x.k = "inf" THEN FALSE
    ELSE IF y.k = "inf" THEN TRUE
    ELSE x.n * y.d < y.n * x.d

FLe(x, y) ==
    IF x.k = "nan" \/ y.k = "nan" THEN FALSE
    ELSE IF y.k = "inf" THEN TRUE
    ELSE IF x.k = "inf" THEN FALSE
    ELSE x.n * y.d <= y.n * x.d

\* f"{x:.2f}": the value rounded to hundredths (ties to even), as a count of
\* hundredths; nan and inf print as such
Fmt2(x) ==
    IF x.k # "num" THEN <<x.k, 0>>
    ELSE LET m == 100 * x.n
             q == m \div x.d
             r == m % x.d
         IN  IF 2 * r < x.d THEN <<"num", q>>
             ELSE IF 2 * r > x.d THEN <<"num", q + 1>>
             ELSE IF q % 2 = 0 THEN <<"num", q>> ELSE <<"num", q + 1>>

\* capitalization rendered as "<value>B" or "<value>M"
KapitalizacjaStr(market_cap) ==
    IF market_cap >= 1000000
    THEN <<Fmt2(Num(market_cap, 1000000)), "B">>
    ELSE <<Fmt2(Num(market_cap, 1000)), "M">>

\* ------------------------------------------------------------------------
\* Price series
\* ------------------------------------------------------------------------
\* Series.dropna()
Dropna(s) == SelectSeq(s, LAMBDA x : x # NaN)

\* Series.iloc[-k] of a series of at least k values
Iloc(s, k) == s[Len(s) + 1 - k]

\* ------------------------------------------------------------------------
\* Exceptions.  A per-ticker step either completes or raises one of these;
\* each loop body names the kinds its except clause catches.
\* ------------------------------------------------------------------------
Wyjatki == {"KeyError", "IndexError", "ZeroDivisionError", "HTTPError"}

\* Krok1Lapane without KeyError
Krok1LapaneBezKeyError == {"IndexError", "ZeroDivisionError"}
Krok1Lapane == {"KeyError", "IndexError", "ZeroDivisionError"}
\* except Exception
Krok2Lapane == Wyjatki
Krok3Lapane == {"KeyError", "IndexError", "ZeroDivisionError"}
Krok4Lapane == {"KeyError", "IndexError"}

\* ------------------------------------------------------------------------
\* The frame returned by the bulk fetch: rows (trading days) and one column
\* of closing prices per fetched ticker.  data.empty and data[ticker]['Close']
\* ------------------------------------------------------------------------
\* DataEmpty when the emptiness of the frame is not looked at
DataEmptyPominiete(d) == FALSE
DataEmpty(d) == d.rows = 0 \/ DOMAIN d.cols = {}
MaKolumne(d, ticker) == ticker \in DOMAIN d.cols

\* ------------------------------------------------------------------------
\* Candidates: the dictionary accreted over the stages.  marketCap = 0 and
\* wzrost_3d = None stand for a key not yet set.  A stage's list holds the
\* dictionary as it was when the stage appended it; the keys a later stage
\* adds to the shared dictionary are never read through an earlier list.
\* ------------------------------------------------------------------------
Kandydat(ticker, wk, wp) ==
    [Ticker |-> ticker, wzrost_kwartalny |-> wk, wzrost_polroczny |-> wp,
     marketCap |-> 0, wzrost_3d |-> None]

BrakKandydata == Kandydat("", None, None)

Wynik(exc, keep, kandydat) == [exc |-> exc, keep |-> keep, kandydat |-> kandydat]

\* Krok1Ocena with the quarter counted from one session earlier
Krok1OcenaPrzesunieta(ticker, d) ==
    IF ~MaKolumne(d, ticker) THEN Wynik("KeyError", FALSE, BrakKandydata)
    ELSE LET historia_spolki == Dropna(d.cols[ticker])
         IN  IF Len(historia_spolki) < dni_polrocze + 1
             THEN Wynik("", FALSE, BrakKandydata)
             ELSE LET cena_aktualna == Iloc(historia_spolki, 1)
                      cena_kwartal_temu == Iloc(historia_spolki, dni_kwartal + 1)
                      cena_pol_roku_temu == Iloc(historia_spolki, dni_polrocze)
                      wzrost_kwartalny == Wzrost(cena_aktualna, cena_kwartal_temu)
                      wzrost_polroczny == Wzrost(cena_aktualna, cena_pol_roku_temu)
                  IN  IF /\ FLe(Num(15, 1), wzrost_kwartalny)
                         /\ FLe(wzrost_kwartalny, Num(80, 1))
                         /\ FLe(Num(25, 1), wzrost_polroczny)
                         /\ FLe(wzrost_polroczny, Num(100, 1))
                      THEN Wynik("", TRUE,
                                 Kandydat(ticker, wzrost_kwartalny, wzrost_polroczny))
                      ELSE Wynik("", FALSE, BrakKandydata)

\* the body of the Krok 1 loop for one ticker
Krok1Ocena(ticker, d) ==
    IF ~MaKolumne(d, ticker) THEN Wynik("KeyError", FALSE, BrakKandydata)
    ELSE LET historia_spolki == Dropna(d.cols[ticker])
         IN  IF Len(historia_spolki) < dni_polrocze + 1
             THEN Wynik("", FALSE, BrakKandydata)
             ELSE LET cena_aktualna == Iloc(historia_spolki, 1)
                      cena_kwartal_temu == Iloc(historia_spolki, dni_kwartal)
                      cena_pol_roku_temu == Iloc(historia_spolki, dni_polrocze)
                      wzrost_kwartalny == Wzrost(cena_aktualna, cena_kwartal_temu)
                      wzrost_polroczny == Wzrost(cena_aktualna, cena_pol_roku_temu)
                  IN  IF /\ FLe(Num(15, 1), wzrost_kwartalny)
                         /\ FLe(wzrost_kwartalny, Num(80, 1))
                         /\ FLe(Num(25, 1), wzrost_polroczny)
                         /\ FLe(wzrost_polroczny, Num(100, 1))
                      THEN Wynik("", TRUE,
                                 Kandydat(ticker, wzrost_kwartalny, wzrost_polroczny))
                      ELSE Wynik("", FALSE, BrakKandydata)

\* the body of the Krok 2 loop: odp is what yf.Ticker(t).info.get('marketCap')
\* answers: a value, None (key absent) or an exception
Krok2Ocena(kandydat, odp) ==
    IF odp.k = "err" THEN Wynik("HTTPError", FALSE, kandydat)
    ELSE IF odp.k = "val" /\ odp.v # 0 /\ odp.v > 100000
         THEN Wynik("", TRUE, [kandydat EXCEPT !.marketCap = odp.v])
         ELSE Wynik("", FALSE, kandydat)

\* Krok3Ocena keeping a candidate that merely matches the benchmark
Krok3OcenaNieostra(kandydat, d, sp500) ==
    IF ~MaKolumne(d, kandydat.Ticker) THEN Wynik("KeyError", FALSE, kandydat)
    ELSE LET historia_spolki == Dropna(d.cols[kandydat.Ticker])
         IN  IF Len(historia_spolki) >= 4
             THEN LET cena_teraz == Iloc(historia_spolki, 1)
                      cena_3d_temu == Iloc(historia_spolki, 4)
                      wzrost_3d_spolki == Wzrost(cena_teraz, cena_3d_temu)
                  IN  IF cena_3d_temu > 0 /\ FLe(wzrost_3d_spolki, sp500)
                      THEN Wynik("", TRUE,
                                 [kandydat EXCEPT !.wzrost_3d = wzrost_3d_spolki])
                      ELSE Wynik("", FALSE, kandydat)
             ELSE Wynik("", FALSE, kandydat)

\* the body of the Krok 3 loop
Krok3Ocena(kandydat, d, sp500) ==
    IF ~MaKolumne(d, kandydat.Ticker) THEN Wynik("KeyError", FALSE, kandydat)
    ELSE LET historia_spolki == Dropna(d.cols[kandydat.Ticker])
         IN  IF Len(historia_spolki) >= 4
             THEN LET cena_teraz == Iloc(historia_spolki, 1)
                      cena_3d_temu == Iloc(historia_spolki, 4)
                      wzrost_3d_spolki == Wzrost(cena_teraz, cena_3d_temu)
                  IN  IF cena_3d_temu > 0 /\ FLt(wzrost_3d_spolki, sp500)
                      THEN Wynik("", TRUE,
                                 [kandydat EXCEPT !.wzrost_3d = wzrost_3d_spolki])
                      ELSE Wynik("", FALSE, kandydat)
             ELSE Wynik("", FALSE, kandydat)

\* the body of the Krok 4 loop
Krok4Ocena(kandydat, d) ==
    IF ~MaKolumne(d, kandydat.Ticker) THEN Wynik("KeyError", FALSE, kandydat)
    ELSE LET historia_spolki == Dropna(d.cols[kandydat.Ticker])
         IN  IF Len(historia_spolki) >= 7
             THEN LET cena_teraz == Iloc(historia_spolki, 1)
                      cena_6d_temu == Iloc(historia_spolki, 7)
                  IN  Wynik("", cena_teraz >= cena_6d_temu, kandydat)
             ELSE Wynik("", FALSE, kandydat)

\* sp500_wzrost_3d from the benchmark frame (rows are not dropna'd here;
\* a NaN compared with 0 is False)
Sp500Wzrost3d(sp500) ==
    IF Len(sp500) >= 4
    THEN LET sp500_cena_teraz == Iloc(sp500, 1)
             sp500_cena_3d_temu == Iloc(sp500, 4)
         IN  IF sp500_cena_3d_temu # NaN /\ sp500_cena_3d_temu > 0
             THEN Wzrost(sp500_cena_teraz, sp500_cena_3d_temu)
             ELSE None
    ELSE None

\* ------------------------------------------------------------------------
\* Output: the rows of the printed tables and the lines of wynik.txt
\* ------------------------------------------------------------------------
\* row of the table printed when Krok 3 is skipped
WierszKap(k) ==
    <<k.Ticker, Fmt2(k.wzrost_kwartalny), Fmt2(k.wzrost_polroczny),
      KapitalizacjaStr(k.marketCap)>>

\* row of the final table
WierszFinalny(k) ==
    <<k.Ticker, Fmt2(k.wzrost_3d), Fmt2(k.wzrost_kwartalny),
      Fmt2(k.wzrost_polroczny), KapitalizacjaStr(k.marketCap)>>

\* a line of wynik.txt
Linia(k) ==
    <<k.Ticker, Fmt2(k.wzrost_kwartalny), Fmt2(k.wzrost_polroczny), Fmt2(k.wzrost_3d)>>

LiniaSp500(sp500) == <<"SP500", Fmt2(sp500)>>

\* the DataFrames printed and the lines of the for-loop of the with-block
TabelaKap(ks) == [i \in 1..Len(ks) |-> WierszKap(ks[i])]
TabelaFinalna(ks) == [i \in 1..Len(ks) |-> WierszFinalny(ks[i])]
Linie(ks) == [i \in 1..Len(ks) |-> Linia(ks[i])]

\* TrescPliku without the closing benchmark line
TrescPlikuBezSp500(ostateczne, sp500) == Linie(ostateczne)

\* everything the with-block writes when no write fails
TrescPliku(ostateczne, sp500) ==
    Linie(ostateczne) \o (IF sp500 # None THEN <<LiniaSp500(sp500)>> ELSE <<>>)

Tickery(ks) == [i \in 1..Len(ks) |-> ks[i].Ticker]

\* ------------------------------------------------------------------------
\* State
\* ------------------------------------------------------------------------
VARIABLES
    tickers,                    \* argument: the ticker list
    limit_spolek,               \* argument: the cap on tickers examined
    swiat,                      \* what the external sources answer (fixed)
    pc,                         \* position in the function body
    przebieg,                   \* 1 in the first run, 2 in the repeated run
    tickers_do_analizy,
    sp500_data,
    sp500_wzrost_3d,
    data,
    idx,                        \* position of the running for-loop
    kandydaci,
    kandydaci_po_kapitalizacji,
    finalne_spolki,
    ostateczne_spolki,
    log,                        \* external calls and console output, in order
    wynik_txt,                  \* content of the file wynik.txt
    plik_przed,                 \* content of wynik.txt when the run started
    zapis,                      \* how the write of wynik.txt went in this run
    koniec,                     \* how the run ended
    poprzedni                   \* what the previous run left

wejscie == <<tickers, limit_spolek, swiat>>
lokalne == <<tickers_do_analizy, sp500_data, sp500_wzrost_3d, data, idx>>
listy == <<kandydaci, kandydaci_po_kapitalizacji, finalne_spolki, ostateczne_spolki>>
plik == <<wynik_txt, plik_przed, zapis>>
vars == <<wejscie, pc, przebieg, lokalne, listy, log, plik, koniec, poprzedni>>

Zdarzenie(ev, ticker, rows) == [ev |-> ev, ticker |-> ticker, rows |-> rows]
Komunikat(ev) == Zdarzenie(ev, "", <<>>)

PustaRamka == [rows |-> 0, cols |-> <<>>]

Migawka ==
    [kandydaci |-> kandydaci,
     kandydaci_po_kapitalizacji |-> kandydaci_po_kapitalizacji,
     finalne_spolki |-> finalne_spolki,
     ostateczne_spolki |-> ostateczne_spolki,
     sp500_wzrost_3d |-> sp500_wzrost_3d,
     log |-> log, wynik_txt |-> wynik_txt, zapis |-> zapis, koniec |-> koniec]

BrakMigawki ==
    [kandydaci |-> <<>>, kandydaci_po_kapitalizacji |-> <<>>,
     finalne_spolki |-> <<>>, ostateczne_spolki |-> <<>>,
     sp500_wzrost_3d |-> None,
     log |-> <<>>, wynik_txt |-> <<>>, zapis |-> "", koniec |-> ""]

\* ------------------------------------------------------------------------
\* Inputs: the ticker lists and what the external sources answer
\* ------------------------------------------------------------------------
Symbole == {"AAA", "BBB"}

ListyTickerow == UNION {[1..n -> Symbole] : n \in 0..MaxTickers}

Nans(n) == [i \in 1..n |-> NaN]

\* a gap-free history of `valid` closes: a today, b three sessions ago, c six
\* sessions ago, q at iloc[-dni_kwartal], h at iloc[-dni_polrocze], a elsewhere
Wazne(valid, a, b, c, q, h) ==
    [i \in 1..valid |->
        LET d == valid - i + 1
        IN  CASE d = 1 -> a
              [] d = 4 -> b
              [] d = 7 -> c
              [] d = dni_kwartal -> q
              [] d = dni_polrocze -> h
              [] OTHER -> a]

\* the column of the frame: the history, preceded by NaN rows (not yet listed)
\* and, if gap, with a NaN row before the last two closes
Kolumna(valid, gap, a, b, c, q, h) ==
    LET v == Wazne(valid, a, b, c, q, h)
    IN  IF gap /\ valid >= 2
        THEN Nans(NRows - valid - 1) \o SubSeq(v, 1, valid - 2) \o <<NaN>>
             \o SubSeq(v, valid - 1, valid)
        ELSE Nans(NRows - valid) \o v

Jest(close) == [jest |-> TRUE, close |-> close]
Brak == [jest |-> FALSE, close |-> <<>>]

\* passes every stage against the benchmark SpOk
KolOK == Jest(Kolumna(dni_polrocze + 1, FALSE, 2070, 2051, 2070, 1800, 1035))
\* same 3-day return as the benchmark SpOk
KolRowna == Jest(Kolumna(dni_polrocze + 1, FALSE, 2070, 2050, 2070, 1800, 1035))
\* below the close of six sessions ago
KolSpadek == Jest(Kolumna(dni_polrocze + 1, FALSE, 2070, 2051, 2071, 1800, 1035))
\* fetched, but every close is a gap
KolPusta == Jest(Nans(NRows))

\* the closes a quarter and half a year ago, around the edges of the bands
\* (15, 80 and 25, 100 per cent of growth to 2070) and zero
CenyKwartalPolrocze ==
    {<<q, 1035>> : q \in {0, 1149, 1150, 1800, 1801}}
    \cup {<<1800, h>> : h \in {0, 1034, 1035, 1656, 1657}}
    \cup {<<0, 0>>, <<1801, 1657>>, <<1150, 1656>>}

KolMomentum ==
    {Jest(Kolumna(valid, gap, 2070, 2051, 2070, qh[1], qh[2])) :
        valid \in {dni_polrocze, dni_polrocze + 1}, gap \in BOOLEAN,
        qh \in CenyKwartalPolrocze}
    \cup {Brak, KolPusta}

KolOstatnie ==
    {Jest(Kolumna(dni_polrocze + 1, gap, 2070, b, c, 1500, 1200)) :
        gap \in BOOLEAN, b \in {0, 2050, 2051, 2100}, c \in {2070, 2071}}

Wartosc(v) == [k |-> "val", v |-> v]
OdpBlad == [k |-> "err", v |-> 0]
OdpBrak == [k |-> "none", v |-> 0]
OdpDuza == Wartosc(2503456)
Odpowiedzi ==
    {OdpBlad, OdpBrak, Wartosc(0), Wartosc(100000), Wartosc(100001),
     Wartosc(999999), OdpDuza}

SpOk == <<2040, 2050, 2060, 2065, 2070>>
Benchmarki ==
    {SpOk,
     <<2050, 2060, 2065, 2070>>,
     <<2050, 2060, 2070>>,
     <<>>,
     <<2040, 0, 2060, 2065, 2070>>,
     <<2040, 2050, 2060, 2065, NaN>>,
     <<2040, NaN, 2060, 2065, 2070>>,
     <<2040, 2050, NaN, NaN, 2070>>,
     <<2040, 2100, 2060, 2065, 2070>>}

Ramka(kol) ==
    [rows |-> NRows,
     cols |-> [t \in {s \in Symbole : kol[s].jest} |-> kol[t].close]]

Swiat(sp500, ramka, kap) == [sp500 |-> sp500, dane |-> ramka, kapitalizacja |-> kap]

Para(x, y) == [t \in Symbole |-> IF t = "AAA" THEN x ELSE y]

\* the momentum stage in detail
SwiatyMomentum ==
    {Swiat(SpOk, Ramka(Para(a, b)), Para(OdpDuza, OdpDuza)) :
        a \in KolMomentum, b \in {KolOK, Brak}}

\* the recent-history stages and the benchmark in detail
SwiatyOstatnie ==
    {Swiat(sp, Ramka(Para(a, KolOK)), Para(OdpDuza, OdpDuza)) :
        sp \in Benchmarki, a \in KolOstatnie}
    \cup {Swiat(SpOk, Ramka(Para(a, KolRowna)), Para(OdpDuza, OdpDuza)) :
              a \in KolOstatnie}

\* the capitalization answers in detail
SwiatyKapitalizacja ==
    {Swiat(sp, Ramka(Para(a, KolOK)), Para(oa, ob)) :
        sp \in {SpOk, <<2050, 2060, 2070>>}, a \in {KolOK, KolSpadek},
        oa \in Odpowiedzi, ob \in {OdpDuza, OdpBlad, Wartosc(100000)}}

\* the bulk fetch returns nothing
SwiatyPuste == {Swiat(sp, PustaRamka, Para(OdpDuza, OdpDuza)) : sp \in Benchmarki}

Swiaty == SwiatyMomentum \cup SwiatyOstatnie \cup SwiatyKapitalizacja \cup SwiatyPuste

\* wynik.txt as an earlier run may have left it
StaryPlik == <<<<"ZZZ", <<"num", 2000>>, <<"num", 3000>>, <<"num", -150>>>>,
               <<"SP500", <<"num", 25>>>>>>

Init ==
    /\ tickers \in ListyTickerow
    /\ limit_spolek = LimitSpolek
    /\ swiat \in Swiaty
    /\ pc = "start"
    /\ przebieg = 1
    /\ tickers_do_analizy = <<>>
    /\ sp500_data = <<>>
    /\ sp500_wzrost_3d = None
    /\ data = PustaRamka
    /\ idx = 1
    /\ kandydaci = <<>>
    /\ kandydaci_po_kapitalizacji = <<>>
    /\ finalne_spolki = <<>>
    /\ ostateczne_spolki = <<>>
    /\ log = <<>>
    /\ wynik_txt \in {<<>>, StaryPlik}
    /\ wynik_txt = <<>> => swiat \in SwiatyKapitalizacja \cup SwiatyPuste
    /\ plik_przed = wynik_txt
    /\ zapis = ""
    /\ koniec = ""
    /\ poprzedni = BrakMigawki

\* ------------------------------------------------------------------------
\* The function body, one action per step
\* ------------------------------------------------------------------------
Min(a, b) == IF a < b THEN a ELSE b

\* return: the run is over
Wroc(jak) == pc' = "done" /\ koniec' = jak

\* lines 47-52
Start ==
    /\ pc = "start"
    /\ IF tickers = <<>>
       THEN /\ log' = Append(log, Komunikat("pusta_lista"))
            /\ Wroc("pusta_lista")
            /\ UNCHANGED tickers_do_analizy
       ELSE /\ tickers_do_analizy' = SubSeq(tickers, 1, Min(limit_spolek, Len(tickers)))
            /\ log' = Append(log, Komunikat("rozpoczynam"))
            /\ pc' = "sp500"
            /\ UNCHANGED koniec
    /\ UNCHANGED <<wejscie, przebieg, sp500_data, sp500_wzrost_3d, data, idx,
                   listy, plik, poprzedni>>

\* lines 54-74: the benchmark fetch and its 3-day return
PobierzSp500 ==
    /\ pc = "sp500"
    /\ sp500_data' = swiat.sp500
    /\ sp500_wzrost_3d' = Sp500Wzrost3d(swiat.sp500)
    /\ log' = log \o <<Zdarzenie("download", "^GSPC", <<>>)>>
              \o (IF Len(swiat.sp500) >= 4
                  THEN (IF Sp500Wzrost3d(swiat.sp500) # None
                        THEN <<Zdarzenie("wzrost_sp500", "",
                                         <<Fmt2(Sp500Wzrost3d(swiat.sp500))>>)>>
                        ELSE <<>>)
                  ELSE <<Komunikat("ostrzezenie_sp500")>>)
    /\ pc' = "download"
    /\ UNCHANGED <<wejscie, przebieg, tickers_do_analizy, data, idx, listy, plik,
                   koniec, poprzedni>>

\* the frame yf.download answers for the tickers asked for
Pobrane(ts) ==
    [rows |-> swiat.dane.rows,
     cols |-> [t \in {s \in DOMAIN swiat.dane.cols : \E i \in 1..Len(ts) : ts[i] = s}
                 |-> swiat.dane.cols[t]]]

\* lines 76-91: the bulk fetch
PobierzDane ==
    /\ pc = "download"
    /\ data' = Pobrane(tickers_do_analizy)
    /\ IF DataEmpty(data')
       THEN /\ log' = log \o <<Zdarzenie("download", "universe", <<>>),
                               Komunikat("brak_danych")>>
            /\ Wroc("brak_danych")
       ELSE /\ log' = log \o <<Zdarzenie("download", "universe", <<>>),
                               Komunikat("krok1")>>
            /\ pc' = "krok1"
            /\ UNCHANGED koniec
    /\ idx' = 1
    /\ kandydaci' = <<>>
    /\ UNCHANGED <<wejscie, przebieg, tickers_do_analizy, sp500_data, sp500_wzrost_3d,
                   kandydaci_po_kapitalizacji, finalne_spolki, ostateczne_spolki,
                   plik, poprzedni>>

\* one pass of a for-loop body whose evaluation is w: an exception the except
\* clause does not catch leaves the function, otherwise the loop goes on
Obieg(w, lapane) ==
    IF w.exc # "" /\ w.exc \notin lapane
    THEN Wroc("wyjatek") /\ UNCHANGED idx
    ELSE idx' = idx + 1 /\ UNCHANGED <<pc, koniec>>

\* Dolacz putting the kept candidate in front
DolaczNaPoczatek(lista, w) ==
    IF w.exc = "" /\ w.keep THEN <<w.kandydat>> \o lista ELSE lista
Dolacz(lista, w) == IF w.exc = "" /\ w.keep THEN Append(lista, w.kandydat) ELSE lista

\* lines 92-118: one ticker of Krok 1
Krok1 ==
    /\ pc = "krok1"
    /\ idx <= Len(tickers_do_analizy)
    /\ LET w == Krok1Ocena(tickers_do_analizy[idx], data)
       IN  /\ Obieg(w, Krok1Lapane)
           /\ kandydaci' = Dolacz(kandydaci, w)
    /\ UNCHANGED <<wejscie, przebieg, tickers_do_analizy, sp500_data, sp500_wzrost_3d,
                   data, kandydaci_po_kapitalizacji, finalne_spolki,
                   ostateczne_spolki, log, plik, poprzedni>>

\* lines 120-126
Krok1Koniec ==
    /\ pc = "krok1"
    /\ idx > Len(tickers_do_analizy)
    /\ IF kandydaci = <<>>
       THEN /\ log' = Append(log, Komunikat("brak_kandydatow"))
            /\ Wroc("brak_kandydatow")
       ELSE /\ log' = Append(log, Komunikat("krok2"))
            /\ pc' = "krok2"
            /\ UNCHANGED koniec
    /\ idx' = 1
    /\ kandydaci_po_kapitalizacji' = <<>>
    /\ UNCHANGED <<wejscie, przebieg, tickers_do_analizy, sp500_data, sp500_wzrost_3d,
                   data, kandydaci, finalne_spolki, ostateczne_spolki, plik,
                   poprzedni>>

\* lines 127-138: one candidate of Krok 2, with its market-capitalization lookup
Krok2 ==
    /\ pc = "krok2"
    /\ idx <= Len(kandydaci)
    /\ LET w == Krok2Ocena(kandydaci[idx], swiat.kapitalizacja[kandydaci[idx].Ticker])
       IN  /\ Obieg(w, Krok2Lapane)
           /\ kandydaci_po_kapitalizacji' = Dolacz(kandydaci_po_kapitalizacji, w)
    /\ log' = Append(log, Zdarzenie("info", kandydaci[idx].Ticker, <<>>))
    /\ UNCHANGED <<wejscie, przebieg, tickers_do_analizy, sp500_data, sp500_wzrost_3d,
                   data, kandydaci, finalne_spolki, ostateczne_spolki, plik,
                   poprzedni>>

\* lines 140-166
Krok2Koniec ==
    /\ pc = "krok2"
    /\ idx > Len(kandydaci)
    /\ IF kandydaci_po_kapitalizacji = <<>>
       THEN /\ log' = Append(log, Komunikat("brak_po_kapitalizacji"))
            /\ Wroc("brak_po_kapitalizacji")
       ELSE IF sp500_wzrost_3d = None
       THEN /\ log' = log \o <<Komunikat("pominieto_krok3"),
                               Zdarzenie("tabela_kap", "",
                                         TabelaKap(kandydaci_po_kapitalizacji))>>
            /\ Wroc("bez_kroku3")
       ELSE /\ log' = Append(log, Komunikat("krok3"))
            /\ pc' = "krok3"
            /\ UNCHANGED koniec
    /\ idx' = 1
    /\ finalne_spolki' = <<>>
    /\ UNCHANGED <<wejscie, przebieg, tickers_do_analizy, sp500_data, sp500_wzrost_3d,
                   data, kandydaci, kandydaci_po_kapitalizacji, ostateczne_spolki,
                   plik, poprzedni>>

\* Krok3 fetching the candidate's prices again
Krok3ZPobraniem ==
    /\ pc = "krok3"
    /\ idx <= Len(kandydaci_po_kapitalizacji)
    /\ LET w == Krok3Ocena(kandydaci_po_kapitalizacji[idx], data, sp500_wzrost_3d)
       IN  /\ Obieg(w, Krok3Lapane)
           /\ finalne_spolki' = Dolacz(finalne_spolki, w)
    /\ log' = Append(log, Zdarzenie("download", kandydaci_po_kapitalizacji[idx].Ticker,
                                    <<>>))
    /\ UNCHANGED <<wejscie, przebieg, tickers_do_analizy, sp500_data, sp500_wzrost_3d,
                   data, kandydaci, kandydaci_po_kapitalizacji, ostateczne_spolki,
                   plik, poprzedni>>

\* lines 167-186: one candidate of Krok 3
Krok3 ==
    /\ pc = "krok3"
    /\ idx <= Len(kandydaci_po_kapitalizacji)
    /\ LET w == Krok3Ocena(kandydaci_po_kapitalizacji[idx], data, sp500_wzrost_3d)
       IN  /\ Obieg(w, Krok3Lapane)
           /\ finalne_spolki' = Dolacz(finalne_spolki, w)
    /\ UNCHANGED <<wejscie, przebieg, tickers_do_analizy, sp500_data, sp500_wzrost_3d,
                   data, kandydaci, kandydaci_po_kapitalizacji, ostateczne_spolki,
                   log, plik, poprzedni>>

\* lines 188-194
Krok3Koniec ==
    /\ pc = "krok3"
    /\ idx > Len(kandydaci_po_kapitalizacji)
    /\ IF finalne_spolki = <<>>
       THEN /\ log' = Append(log, Komunikat("brak_finalnych"))
            /\ Wroc("brak_finalnych")
       ELSE /\ log' = Append(log, Komunikat("krok4"))
            /\ pc' = "krok4"
            /\ UNCHANGED koniec
    /\ idx' = 1
    /\ ostateczne_spolki' = <<>>
    /\ UNCHANGED <<wejscie, przebieg, tickers_do_analizy, sp500_data, sp500_wzrost_3d,
                   data, kandydaci, kandydaci_po_kapitalizacji, finalne_spolki,
                   plik, poprzedni>>

\* lines 195-208: one candidate of Krok 4
Krok4 ==
    /\ pc = "krok4"
    /\ idx <= Len(finalne_spolki)
    /\ LET w == Krok4Ocena(finalne_spolki[idx], data)
       IN  /\ Obieg(w, Krok4Lapane)
           /\ ostateczne_spolki' = Dolacz(ostateczne_spolki, w)
    /\ UNCHANGED <<wejscie, przebieg, tickers_do_analizy, sp500_data, sp500_wzrost_3d,
                   data, kandydaci, kandydaci_po_kapitalizacji, finalne_spolki,
                   log, plik, poprzedni>>

\* lines 210-226: the verdict of Krok 4 and the printed table
Krok4Koniec ==
    /\ pc = "krok4"
    /\ idx > Len(finalne_spolki)
    /\ IF ostateczne_spolki = <<>>
       THEN /\ log' = Append(log, Komunikat("brak_ostatecznych"))
            /\ pc' = "podsumowanie"
       ELSE /\ log' = Append(log, Zdarzenie("tabela", "",
                                            TabelaFinalna(ostateczne_spolki)))
            /\ pc' = "zapis"
    /\ UNCHANGED <<wejscie, przebieg, lokalne, listy, plik, koniec, poprzedni>>

\* PoZapisie with the file opened for appending
PoZapisieDopisujac(jak, n, stary, tresc) ==
    CASE jak = "ok" -> stary \o tresc
      [] jak = "open" -> stary
      [] jak = "write" -> stary \o SubSeq(tresc, 1, n)

\* what wynik.txt holds after the with-block, by how the write went: "ok";
\* "open" when open() raises (nothing is touched); "write" when a write raises
\* after n complete lines of the truncated file
PoZapisie(jak, n, stary, tresc) ==
    CASE jak = "ok" -> tresc
      [] jak = "open" -> stary
      [] jak = "write" -> SubSeq(tresc, 1, n)

\* Zapis without the except clause: a failed write leaves the function
ZapisBezExcept ==
    /\ pc = "zapis"
    /\ LET tresc == TrescPliku(ostateczne_spolki, sp500_wzrost_3d)
       IN  \E jak \in {"ok", "open", "write"} : \E n \in 0..(Len(tresc) - 1) :
               /\ jak # "write" => n = 0
               /\ wynik_txt' = PoZapisie(jak, n, wynik_txt, tresc)
               /\ zapis' = jak
               /\ IF jak = "ok"
                  THEN /\ log' = log \o <<Zdarzenie("open", "wynik.txt", <<>>),
                                          Komunikat("zapisano")>>
                       /\ pc' = "podsumowanie"
                       /\ UNCHANGED koniec
                  ELSE /\ log' = Append(log, Zdarzenie("open", "wynik.txt", <<>>))
                       /\ Wroc("wyjatek")
    /\ UNCHANGED <<wejscie, przebieg, lokalne, listy, plik_przed, poprzedni>>

\* lines 228-247: the file is opened for writing and written; an IOError is
\* reported
Zapis ==
    /\ pc = "zapis"
    /\ LET tresc == TrescPliku(ostateczne_spolki, sp500_wzrost_3d)
       IN  \E jak \in {"ok", "open", "write"} : \E n \in 0..(Len(tresc) - 1) :
               /\ jak # "write" => n = 0
               /\ wynik_txt' = PoZapisie(jak, n, wynik_txt, tresc)
               /\ zapis' = jak
               /\ log' = log \o <<Zdarzenie("open", "wynik.txt", <<>>),
                                  Komunikat(IF jak = "ok" THEN "zapisano"
                                            ELSE "blad_zapisu")>>
    /\ pc' = "podsumowanie"
    /\ UNCHANGED <<wejscie, przebieg, lokalne, listy, plik_przed, koniec, poprzedni>>

\* lines 249-254: the closing benchmark summary
Podsumowanie ==
    /\ pc = "podsumowanie"
    /\ log' = IF sp500_data # <<>> /\ Len(sp500_data) > 1
              THEN Append(log, Komunikat("podsumowanie_sp500"))
              ELSE log
    /\ Wroc("koniec")
    /\ UNCHANGED <<wejscie, przebieg, lokalne, listy, plik, poprzedni>>

\* the function is called again with the same arguments, the sources answering
\* the same
Ponownie ==
    /\ pc = "done"
    /\ przebieg = 1
    /\ poprzedni' = Migawka
    /\ przebieg' = 2
    /\ pc' = "start"
    /\ tickers_do_analizy' = <<>>
    /\ sp500_data' = <<>>
    /\ sp500_wzrost_3d' = None
    /\ data' = PustaRamka
    /\ idx' = 1
    /\ kandydaci' = <<>>
    /\ kandydaci_po_kapitalizacji' = <<>>
    /\ finalne_spolki' = <<>>
    /\ ostateczne_spolki' = <<>>
    /\ log' = <<>>
    /\ plik_przed' = wynik_txt
    /\ zapis' = ""
    /\ koniec' = ""
    /\ UNCHANGED <<wejscie, wynik_txt>>

Next ==
    \/ Start
    \/ PobierzSp500
    \/ PobierzDane
    \/ Krok1
    \/ Krok1Koniec
    \/ Krok2
    \/ Krok2Koniec
    \/ Krok3
    \/ Krok3Koniec
    \/ Krok4
    \/ Krok4Koniec
    \/ Zapis
    \/ Podsumowanie

\* one call of the function
Spec == Init /\ [][Next]_vars

NextPowtorka ==
    \/ Next
    \/ Ponownie

\* the function called twice in a row on the same inputs
SpecPowtorka == Init /\ [][NextPowtorka]_vars

TypeOK ==
    /\ pc \in {"start", "sp500", "download", "krok1", "krok2", "krok3", "krok4",
               "zapis", "podsumowanie", "done"}
    /\ przebieg \in {1, 2}
    /\ idx \in 1..(MaxTickers + 1)

\* ------------------------------------------------------------------------
\* What the stages are required to decide, stated on the inputs alone (the
\* answers of the external sources), in integer arithmetic
\* ------------------------------------------------------------------------
MaSerie(t) == t \in DOMAIN swiat.dane.cols /\ swiat.dane.rows > 0

\* the gap-free series of each column the inputs contain (computed once)
Kolumny ==
    {k.close : k \in (KolMomentum \cup KolOstatnie \cup {KolOK, KolRowna, KolSpadek})
                      \ {Brak}}
BezLuk == [k \in Kolumny |-> SelectSeq(k, LAMBDA x : x >= 0)]
Ceny(t) == BezLuk[swiat.dane.cols[t]]
Od(s, k) == s[Len(s) - k + 1]

\* 15 <= (teraz/wtedy - 1)*100 <= 80 etc., for wtedy > 0
WPasmie(teraz, wtedy, dol, gora) ==
    /\ wtedy > 0
    /\ dol * wtedy <= 100 * (teraz - wtedy)
    /\ 100 * (teraz - wtedy) <= gora * wtedy

WarunekMomentum(t) ==
    /\ MaSerie(t)
    /\ LET s == Ceny(t)
       IN  /\ Len(s) >= 127
           /\ WPasmie(s[Len(s)], s[Len(s) - 62], 15, 80)
           /\ WPasmie(s[Len(s)], s[Len(s) - 125], 25, 100)

WarunekKapitalizacja(t) ==
    swiat.kapitalizacja[t].k = "val" /\ swiat.kapitalizacja[t].v > 100000

BenchmarkPoliczalny ==
    /\ Len(swiat.sp500) >= 4
    /\ Od(swiat.sp500, 4) > 0
    /\ Od(swiat.sp500, 1) >= 0

\* (s1/s4 - 1)*100 < (p1/p4 - 1)*100 for s4 > 0 and p4 > 0
WarunekSilaWzgledna(t) ==
    /\ MaSerie(t)
    /\ BenchmarkPoliczalny
    /\ LET s == Ceny(t)
       IN  /\ Len(s) >= 4
           /\ s[Len(s) - 3] > 0
           /\ s[Len(s)] * Od(swiat.sp500, 4) < Od(swiat.sp500, 1) * s[Len(s) - 3]

WarunekBezSpadku(t) ==
    /\ MaSerie(t)
    /\ LET s == Ceny(t)
       IN  /\ Len(s) >= 7
           /\ s[Len(s)] >= s[Len(s) - 6]

\* the loop of stage k has run to its end in this run
Ukonczony(k) ==
    \/ /\ k <= 1
       /\ \/ pc = "krok2"
          \/ pc = "done" /\ koniec \in {"brak_kandydatow", "brak_po_kapitalizacji",
                                         "bez_kroku3"}
    \/ /\ k <= 2
       /\ \/ pc = "krok3"
          \/ pc = "done" /\ koniec \in {"brak_po_kapitalizacji", "bez_kroku3"}
    \/ /\ k <= 3
       /\ \/ pc = "krok4"
          \/ pc = "done" /\ koniec = "brak_finalnych"
    \/ /\ k <= 4
       /\ \/ pc \in {"zapis", "podsumowanie"}
          \/ pc = "done" /\ koniec = "koniec"

PierwszeTickery == SubSeq(tickers, 1, Min(LimitSpolek, Len(tickers)))

Wystepuje(t, ks) == \E j \in 1..Len(ks) : ks[j].Ticker = t

\* C1: once the Momentum Filter has gone through the list, each of the first
\* limit_spolek input tickers is a stage-1 candidate if and only if its
\* gap-free series has at least 127 closes and both returns, taken against
\* series[-63] and series[-126], lie in the bands 15..80 and 25..100
\* (inclusive); a missing series, a short one or a zero divisor excludes the
\* ticker and the run goes on.
C1_MomentumFilter ==
    Ukonczony(1) =>
        /\ \A i \in 1..Len(PierwszeTickery) :
              Wystepuje(PierwszeTickery[i], kandydaci)
                  <=> WarunekMomentum(PierwszeTickery[i])
        /\ \A j \in 1..Len(kandydaci) :
              \E i \in 1..Len(PierwszeTickery) : PierwszeTickery[i] = kandydaci[j].Ticker

\* a run whose Momentum Filter kept one ticker and dropped another whose
\* series is long enough but has a zero close a quarter ago
C1_Witness ==
    /\ Ukonczony(1)
    /\ Len(kandydaci) = 1
    /\ \E i \in 1..Len(PierwszeTickery) :
          LET t == PierwszeTickery[i]
          IN  /\ ~Wystepuje(t, kandydaci)
              /\ MaSerie(t)
              /\ Len(Ceny(t)) >= 127
              /\ Ceny(t)[Len(Ceny(t)) - 62] = 0

\* C2: at every point of a run, a candidate in the output of stage K meets
\* the conditions of stages 1..K: returns in the bands; marketCap present and
\* above 100,000,000; at least 4 closes, price[-4] > 0 and a 3-day return
\* strictly below the benchmark's; at least 7 closes and price[-1] >= price[-7].
C2_StageInvariant ==
    /\ \A j \in 1..Len(kandydaci) : WarunekMomentum(kandydaci[j].Ticker)
    /\ \A j \in 1..Len(kandydaci_po_kapitalizacji) :
          LET k == kandydaci_po_kapitalizacji[j]
          IN  /\ WarunekMomentum(k.Ticker)
              /\ WarunekKapitalizacja(k.Ticker)
              /\ k.marketCap > 100000
    /\ \A j \in 1..Len(finalne_spolki) :
          LET k == finalne_spolki[j]
          IN  /\ WarunekMomentum(k.Ticker)
              /\ WarunekKapitalizacja(k.Ticker)
              /\ k.marketCap > 100000
              /\ WarunekSilaWzgledna(k.Ticker)
    /\ \A j \in 1..Len(ostateczne_spolki) :
          LET k == ostateczne_spolki[j]
          IN  /\ WarunekMomentum(k.Ticker)
              /\ WarunekKapitalizacja(k.Ticker)
              /\ k.marketCap > 100000
              /\ WarunekSilaWzgledna(k.Ticker)
              /\ WarunekBezSpadku(k.Ticker)

\* a finished run with a final survivor, in which the Relative-Strength or
\* the No-Drawdown Filter dropped another candidate
C2_Witness ==
    /\ pc = "done"
    /\ koniec = "koniec"
    /\ Len(ostateczne_spolki) >= 1
    /\ Len(kandydaci_po_kapitalizacji) > Len(ostateczne_spolki)

\* ------------------------------------------------------------------------
\* C3
\* ------------------------------------------------------------------------
\* the benchmark return can be computed in the claim's sense: at least 4
\* valid closes, no gap among the two closes used, price[-4] > 0
BenchmarkDostepny ==
    /\ Len(SelectSeq(swiat.sp500, LAMBDA x : x >= 0)) >= 4
    /\ Od(swiat.sp500, 1) >= 0
    /\ Od(swiat.sp500, 4) > 0

OstatnieZdarzenie(ev) == log # <<>> /\ log[Len(log)].ev = ev

\* C3: the benchmark's 3-day return is computed only from a benchmark series
\* with at least 4 valid closes and price[-4] > 0; in every other case (fewer
\* than 4 valid closes, a gap among the closes used, price[-4] <= 0) the
\* Relative-Strength Filter is skipped and the run ends by reporting exactly
\* the survivors of the Capitalization Filter.
C3_BenchmarkDegraded ==
    /\ (pc # "start" /\ pc # "sp500" /\ sp500_wzrost_3d # None) => BenchmarkDostepny
    /\ (pc = "done" /\ Ukonczony(2) /\ kandydaci_po_kapitalizacji # <<>>
          /\ ~BenchmarkDostepny)
         => /\ koniec = "bez_kroku3"
            /\ OstatnieZdarzenie("tabela_kap")
            /\ Len(log[Len(log)].rows) = Len(kandydaci_po_kapitalizacji)
            /\ \A j \in 1..Len(kandydaci_po_kapitalizacji) :
                  log[Len(log)].rows[j][1] = kandydaci_po_kapitalizacji[j].Ticker

\* ------------------------------------------------------------------------
\* C4
\* ------------------------------------------------------------------------
Abs(x) == IF x < 0 THEN 0 - x ELSE x

\* h hundredths is licz/mian per cent rounded to two decimals
Zaokraglone(pole, licz, mian) ==
    pole[1] = "num" /\ 2 * Abs(100 * licz - pole[2] * mian) <= mian

\* line `linia` of wynik.txt is the line of ticker t: its name and its
\* quarterly, half-year and 3-day returns to two decimals
LiniaTickera(linia, t) ==
    LET s == Ceny(t)
        p1 == s[Len(s)]
    IN  /\ Len(linia) = 4
        /\ linia[1] = t
        /\ Zaokraglone(linia[2], 100 * (p1 - s[Len(s) - 62]), s[Len(s) - 62])
        /\ Zaokraglone(linia[3], 100 * (p1 - s[Len(s) - 125]), s[Len(s) - 125])
        /\ Zaokraglone(linia[4], 100 * (p1 - s[Len(s) - 3]), s[Len(s) - 3])

LiniaBenchmarku(linia) ==
    /\ Len(linia) = 2
    /\ linia[1] = "SP500"
    /\ Zaokraglone(linia[2], 100 * (Od(swiat.sp500, 1) - Od(swiat.sp500, 4)),
                   Od(swiat.sp500, 4))

\* the survivors a finished run reports
Ocalale ==
    IF koniec = "bez_kroku3" THEN kandydaci_po_kapitalizacji ELSE ostateczne_spolki

\* C4 as stated: after every run that got past the universe load the file
\* holds one line per surviving ticker of that run, in order, then the SP500
\* line if the benchmark return was computed, and nothing of an earlier run.
C4_OverwrittenEachRun ==
    (pc = "done" /\ koniec \notin {"pusta_lista", "brak_danych"}) =>
        /\ Len(wynik_txt) = Len(Ocalale) + (IF sp500_wzrost_3d # None THEN 1 ELSE 0)
        /\ \A j \in 1..Len(Ocalale) : wynik_txt[j][1] = Ocalale[j].Ticker
        /\ sp500_wzrost_3d # None => wynik_txt[Len(wynik_txt)][1] = "SP500"

\* C4 as amended: the file is opened exactly by the runs whose No-Drawdown
\* Filter leaves a survivor; after such a run whose write succeeded it holds
\* one line per final survivor, in order, then the SP500 line, and nothing
\* else; a run that does not get that far leaves the file as it was.
C4_OverwrittenWhenSurvivors ==
    /\ pc = "done" => (zapis # "" <=> (koniec = "koniec" /\ ostateczne_spolki # <<>>))
    /\ (pc = "done" /\ zapis = "ok") =>
          /\ Len(wynik_txt) = Len(ostateczne_spolki) + 1
          /\ \A j \in 1..Len(ostateczne_spolki) :
                LiniaTickera(wynik_txt[j], ostateczne_spolki[j].Ticker)
          /\ LiniaBenchmarku(wynik_txt[Len(wynik_txt)])
    /\ zapis = "" => wynik_txt = plik_przed

\* a run that replaced the lines of an earlier run by its own
C4_Witness ==
    /\ pc = "done"
    /\ zapis = "ok"
    /\ plik_przed # <<>>
    /\ wynik_txt # plik_przed
    /\ Len(ostateczne_spolki) >= 1

\* ------------------------------------------------------------------------
\* C5
\* ------------------------------------------------------------------------
NazwaKroku == <<"krok1", "krok2", "krok3", "krok4">>

\* how many entries of its input list (of length n) stage k has gone through
Ile(k, n) == IF Ukonczony(k) THEN n ELSE IF pc = NazwaKroku[k] THEN idx - 1 ELSE 0

Poczatek(s, n) == SubSeq(s, 1, n)

\* C5: no per-ticker failure ends the run (no exception leaves the function)
\* and, at every stage, the tickers kept so far are exactly those of the
\* entries gone through whose own data meet the stage's condition: a ticker's
\* result never depends on another ticker's data.
C5_FailureIsolation ==
    /\ koniec # "wyjatek"
    /\ Tickery(kandydaci)
         = SelectSeq(Poczatek(tickers_do_analizy, Ile(1, Len(tickers_do_analizy))),
                     WarunekMomentum)
    /\ Tickery(kandydaci_po_kapitalizacji)
         = SelectSeq(Poczatek(Tickery(kandydaci), Ile(2, Len(kandydaci))),
                     WarunekKapitalizacja)
    /\ Tickery(finalne_spolki)
         = SelectSeq(Poczatek(Tickery(kandydaci_po_kapitalizacji),
                              Ile(3, Len(kandydaci_po_kapitalizacji))),
                     WarunekSilaWzgledna)
    /\ Tickery(ostateczne_spolki)
         = SelectSeq(Poczatek(Tickery(finalne_spolki), Ile(4, Len(finalne_spolki))),
                     WarunekBezSpadku)

\* a finished run whose first ticker is missing from the fetched data and
\* whose second ticker is a final survivor
C5_Witness ==
    /\ pc = "done"
    /\ koniec = "koniec"
    /\ Len(tickers_do_analizy) = 2
    /\ ~MaSerie(tickers_do_analizy[1])
    /\ Wystepuje(tickers_do_analizy[2], ostateczne_spolki)

\* ------------------------------------------------------------------------
\* C6
\* ------------------------------------------------------------------------
RECURSIVE JestPodciagiem(_, _)
JestPodciagiem(a, b) ==
    IF Len(a) = 0 THEN TRUE
    ELSE IF Len(b) = 0 THEN FALSE
    ELSE IF a[1] = b[1] THEN JestPodciagiem(Tail(a), Tail(b))
    ELSE JestPodciagiem(a, Tail(b))

\* C6: each stage's output is a subsequence of the previous stage's output
\* (stage 1's of the first limit_spolek input tickers): a subset, no ticker
\* more often than in the input, the input's relative order kept.
C6_MonotoneOrdered ==
    /\ JestPodciagiem(Tickery(kandydaci), PierwszeTickery)
    /\ JestPodciagiem(Tickery(kandydaci_po_kapitalizacji), Tickery(kandydaci))
    /\ JestPodciagiem(Tickery(finalne_spolki), Tickery(kandydaci_po_kapitalizacji))
    /\ JestPodciagiem(Tickery(ostateczne_spolki), Tickery(finalne_spolki))

\* a finished run on a list longer than limit_spolek with two different
\* stage-1 candidates of which one is a final survivor
C6_Witness ==
    /\ pc = "done"
    /\ koniec = "koniec"
    /\ Len(tickers) > LimitSpolek
    /\ Len(kandydaci) = 2
    /\ kandydaci[1].Ticker # kandydaci[2].Ticker
    /\ Len(ostateczne_spolki) = 1

\* ------------------------------------------------------------------------
\* C7
\* ------------------------------------------------------------------------
Indeksy(ev) == {i \in 1..Len(log) : log[i].ev = ev}

\* the bulk fetch has nothing for the tickers asked for
PobranoNic ==
    \/ swiat.dane.rows = 0
    \/ \A i \in 1..Len(PierwszeTickery) : PierwszeTickery[i] \notin DOMAIN swiat.dane.cols

\* C7: when the bulk fetch returns an empty result the run reports it and
\* does nothing more: no momentum evaluation, no capitalization lookup, no
\* report, no write; an empty ticker list ends the run before any fetch.
C7_EmptyInputAbort ==
    /\ tickers = <<>> =>
          /\ pc \in {"start", "done"}
          /\ pc = "done" => koniec = "pusta_lista"
          /\ Indeksy("download") = {}
    /\ (tickers # <<>> /\ PobranoNic /\ pc \notin {"start", "sp500", "download"}) =>
          /\ pc = "done"
          /\ koniec = "brak_danych"
          /\ OstatnieZdarzenie("brak_danych")
          /\ Indeksy("krok1") = {} /\ Indeksy("info") = {} /\ Indeksy("open") = {}
          /\ Indeksy("tabela") = {} /\ Indeksy("tabela_kap") = {}
          /\ kandydaci = <<>> /\ kandydaci_po_kapitalizacji = <<>>
          /\ finalne_spolki = <<>> /\ ostateczne_spolki = <<>>
          /\ wynik_txt = plik_przed

\* a run ended by an empty bulk fetch, with a file of an earlier run in place
C7_Witness ==
    /\ pc = "done"
    /\ koniec = "brak_danych"
    /\ PobranoNic
    /\ wynik_txt # <<>>

\* ------------------------------------------------------------------------
\* C8
\* ------------------------------------------------------------------------
BezZapisu(l) == SelectSeq(l, LAMBDA e : e.ev \notin {"open", "zapisano", "blad_zapisu"})

\* C8: the second of two runs on the same ticker list, benchmark series,
\* price series and capitalization answers ends as the first did: the same
\* survivors at every stage, the same benchmark return, the same calls and
\* printed values and, the write going the same way (not failing in either
\* run), the same content of wynik.txt.
C8_Idempotent ==
    (przebieg = 2 /\ pc = "done") =>
        /\ koniec = poprzedni.koniec
        /\ kandydaci = poprzedni.kandydaci
        /\ kandydaci_po_kapitalizacji = poprzedni.kandydaci_po_kapitalizacji
        /\ finalne_spolki = poprzedni.finalne_spolki
        /\ ostateczne_spolki = poprzedni.ostateczne_spolki
        /\ sp500_wzrost_3d = poprzedni.sp500_wzrost_3d
        /\ BezZapisu(log) = BezZapisu(poprzedni.log)
        /\ (zapis \in {"", "ok"} /\ poprzedni.zapis \in {"", "ok"})
              => wynik_txt = poprzedni.wynik_txt

\* two finished runs that both wrote the file, over a file of an earlier run
C8_Witness ==
    /\ przebieg = 2
    /\ pc = "done"
    /\ koniec = "koniec"
    /\ zapis = "ok"
    /\ poprzedni.zapis = "ok"
    /\ Len(ostateczne_spolki) >= 1

\* ------------------------------------------------------------------------
\* C9
\* ------------------------------------------------------------------------
TickeryInfo == [i \in 1..Len(SelectSeq(log, LAMBDA e : e.ev = "info")) |->
                   SelectSeq(log, LAMBDA e : e.ev = "info")[i].ticker]

\* C9: the benchmark is fetched before the universe, each once; no
\* capitalization lookup is made before the Momentum Filter has gone through
\* every ticker; the lookups made are exactly one per Momentum survivor, in
\* candidate order; no fetch follows the start of the Momentum Filter.
C9_CallOrder ==
    /\ \A i \in Indeksy("download") :
          \/ log[i].ticker = "^GSPC" /\ \A j \in Indeksy("download") : j >= i
          \/ /\ log[i].ticker = "universe"
             /\ \E j \in Indeksy("download") : j < i /\ log[j].ticker = "^GSPC"
             /\ \A j \in Indeksy("download") : j <= i
    /\ \A i \in Indeksy("download") : \A j \in Indeksy("krok1") : i < j
    /\ pc \in {"start", "sp500", "download", "krok1"} => Indeksy("info") = {}
    /\ TickeryInfo = Poczatek(Tickery(kandydaci), Ile(2, Len(kandydaci)))
    /\ \A i \in Indeksy("info") : WarunekMomentum(log[i].ticker)

\* a finished run over two tickers with a single lookup, the other ticker
\* having failed the Momentum Filter
C9_Witness ==
    /\ pc = "done"
    /\ koniec = "koniec"
    /\ Len(tickers_do_analizy) = 2
    /\ Cardinality(Indeksy("info")) = 1
    /\ Cardinality(Indeksy("download")) = 2

\* ------------------------------------------------------------------------
\* C10
\* ------------------------------------------------------------------------
\* C10: the table of the final survivors is printed before wynik.txt is
\* opened; when the write fails the failure is reported, the printed table
\* stays, no exception leaves the function and the run ends with the closing
\* benchmark summary.
C10_WriteFailure ==
    /\ \A i \in Indeksy("open") :
          /\ i > 1
          /\ log[i - 1].ev = "tabela"
          /\ Len(log[i - 1].rows) = Len(ostateczne_spolki)
          /\ \A j \in 1..Len(ostateczne_spolki) :
                log[i - 1].rows[j][1] = ostateczne_spolki[j].Ticker
    /\ zapis \in {"open", "write"} =>
          /\ Indeksy("blad_zapisu") # {}
          /\ Indeksy("zapisano") = {}
          /\ Indeksy("tabela") # {}
          /\ pc \in {"podsumowanie", "done"}
          /\ pc = "done" => (koniec = "koniec" /\ OstatnieZdarzenie("podsumowanie_sp500"))

\* a run that ended after a failed write
C10_Witness ==
    /\ pc = "done"
    /\ zapis \in {"open", "write"}
    /\ Indeksy("tabela") # {}

====
